---- MODULE Spec2Model ----
(***************************************************************************)
(* Disk Mosaic: the navigation stack of the treemap panel                  *)
(* (src/src/ui/treemap_panel.rs), the settings' ignore list                *)
(* (src/src/settings.rs) and the scanner that feeds them.                  *)
(*                                                                         *)
(* A node of the tree (data::Data) is an entry of the scanned file system, *)
(* identified by its number.  Its name and kind never change; its size and *)
(* its child collection are fields of the AnalysisResult record below.     *)
(* Owning a node is holding its number: in a Dir's child collection or on  *)
(* data_stack.                                                             *)
(***************************************************************************)
EXTENDS Integers, Sequences, FiniteSets, TLC

VARIABLES
    fs_size,          \* the disk: on-disk size of every file entry
    io_error,         \* the disk: the entries whose access fails with an I/O error
    file_probe,       \* one entry handed to get_file_size, and the size returned
    settings_file,    \* the settings file: what save wrote last (NoFile: never written)
    settings,         \* Settings: dirty, ignored_path, ignore_cloud_mounts
    analysis_result,  \* AnalysisResult: root_path, data_stack, and the nodes' children and size
    can_zoom_in,      \* TreeMapPanel.can_zoom_in
    panicked,         \* the process aborted on a Rust panic
    workers,          \* per scan: the worker's status, position, kept entries and filter
    chan,             \* per scan: the messages sent and not yet received
    cancel,           \* per scan: the shared cancellation signal
    rx,               \* the scan whose receiver the consumer holds (0: none)
    result_of,        \* the scan that delivered analysis_result (0: none)
    scan_log,         \* per scan: its outcome for the consumer and the settings at its start
    last              \* the last operation and its arguments (for zoom_out, index is
                      \* the stack depth it started from); for zoom_in and zoom the
                      \* AnalysisResult it started from (pre); for a zoom_out right
                      \* after a zoom_in that pushed, the one before both (pre2)

scan_vars == <<workers, chan, cancel, rx, result_of, scan_log>>

\* what is on disk, left alone by the scan and by the navigation
disk_vars == <<fs_size, io_error, file_probe, settings_file>>

vars == <<disk_vars, settings, analysis_result, can_zoom_in, panicked, last, scan_vars>>

----------------------------------------------------------------------------
(* Bounds *)

MaxFileSize == 1

MaxWheelEvents == 1

MaxScans == 2

MaxIgnored == 1

----------------------------------------------------------------------------
(* The scanned file system: a fixed shape, sizes drawn in Init.            *)
(*   home/  A   C/ D  E/ F     Dropbox/ (empty)                            *)

Nodes == 1..7
Root == 1
Dirs == {1, 3, 5, 7}
Files == Nodes \ Dirs

IsDirEntry(n) == n \in Dirs

Name(n) ==
    CASE n = 1 -> "home"
      [] n = 2 -> "A"
      [] n = 3 -> "C"
      [] n = 4 -> "D"
      [] n = 5 -> "E"
      [] n = 6 -> "F"
      [] n = 7 -> "Dropbox"

\* read_dir order of every directory
Listing(d) ==
    CASE d = 1 -> <<2, 3, 7>>
      [] d = 3 -> <<4, 5>>
      [] d = 5 -> <<6>>
      [] OTHER -> <<>>

Range(s) == {s[i] : i \in 1..Len(s)}

Last(s) == s[Len(s)]

Front(s) == SubSeq(s, 1, Len(s) - 1)

Parent(n) == CHOOSE d \in Dirs : n \in Range(Listing(d))

HomeDir == <<"home">>

RootPath == <<"home">>

RECURSIVE AbsPath(_)
AbsPath(n) == IF n = Root THEN RootPath ELSE Append(AbsPath(Parent(n)), Name(n))

----------------------------------------------------------------------------
(* Settings (src/src/settings.rs) *)

CloudNames ==
    {"Dropbox", "OneDrive", "OneDrive - Personal", "Google Drive",
     "Google Drive (Shared)", "Box", "Nextcloud", "SynologyDrive",
     "pCloud Drive", "MEGA"}

IsPrefix(p, q) == Len(p) <= Len(q) /\ SubSeq(q, 1, Len(p)) = p

BIG_FILE_THRESHOLD == 10000000

ColorSchemes == {"Egui", "Solarized"}

Themes == {"System", "Dark", "Light"}

\* Settings::default when no settings file can be read
DefaultSettings ==
    [dirty |-> FALSE, color_scheme |-> "Egui", theme |-> "System",
     ignored_path |-> <<>>, ignore_cloud_mounts |-> TRUE,
     big_file_threshold |-> BIG_FILE_THRESHOLD]

is_common_cloud_path(path) ==
    IF \/ IsPrefix(<<"run", "user">>, path)
       \/ IsPrefix(<<"media">>, path)
       \/ IsPrefix(<<"mnt">>, path)
       \/ IsPrefix(<<"snap">>, path)
    THEN TRUE
    ELSE IF IsPrefix(HomeDir, path) /\ Len(path) > Len(HomeDir)
         THEN path[Len(HomeDir) + 1] \in CloudNames
         ELSE FALSE

is_path_ignored(s, path) ==
    IF path \in Range(s.ignored_path)
    THEN TRUE
    ELSE IF s.ignore_cloud_mounts /\ is_common_cloud_path(path)
         THEN TRUE
         ELSE FALSE

add_ignored_path(s, path) ==
    [s EXCEPT !.ignored_path = Append(@, path), !.dirty = TRUE]

\* color_scheme_mut: the caller writes through the reference, dirty is left alone
color_scheme_mut(s, scheme) == [s EXCEPT !.color_scheme = scheme]

set_theme(s, theme) == [s EXCEPT !.theme = theme, !.dirty = TRUE]

reset_big_file_threshold(s) ==
    [s EXCEPT !.big_file_threshold = BIG_FILE_THRESHOLD, !.dirty = TRUE]

\* what serde writes of a Settings: every field but dirty (#[serde(skip)])
Serialized(s) ==
    [color_scheme |-> s.color_scheme, theme |-> s.theme,
     ignored_path |-> s.ignored_path, ignore_cloud_mounts |-> s.ignore_cloud_mounts,
     big_file_threshold |-> s.big_file_threshold]

\* what serde reads back: dirty takes its default, false
Deserialized(c) ==
    [dirty |-> FALSE, color_scheme |-> c.color_scheme, theme |-> c.theme,
     ignored_path |-> c.ignored_path, ignore_cloud_mounts |-> c.ignore_cloud_mounts,
     big_file_threshold |-> c.big_file_threshold]

\* no settings.json in the settings folder
NoFile == [written |-> FALSE, content |-> Serialized(DefaultSettings)]

FileWith(c) == [written |-> TRUE, content |-> c]

\* a save that writes whether or not anything changed
save_regardless(s, file, home, io_ok) ==
    IF home
    THEN IF io_ok THEN FileWith(Serialized(s)) ELSE file
    ELSE file

\* Settings::save on the settings file `file`: home is whether home_dir() is
\* known, io_ok whether create_dir_all and File::create succeed
save(s, file, home, io_ok) ==
    IF s.dirty /\ home
    THEN IF io_ok THEN FileWith(Serialized(s)) ELSE file
    ELSE file

----------------------------------------------------------------------------
(* The tree a completed scan delivers (spec 4.1): entries the filter       *)
(* ignores are skipped with everything below them, a Dir's size is the sum *)
(* of its children's, and every child collection is sorted descending by   *)
(* size.                                                                   *)

RECURSIVE SumSeq(_, _)
SumSeq(s, sz) == IF s = <<>> THEN 0 ELSE sz[s[1]] + SumSeq(Tail(s), sz)

\* stable insertion of x into t, t sorted descending by sz
InsertDesc(t, x, sz) ==
    LET k == Cardinality({i \in 1..Len(t) : sz[t[i]] >= sz[x]})
    IN  SubSeq(t, 1, k) \o <<x>> \o SubSeq(t, k + 1, Len(t))

RECURSIVE SortDesc(_, _)
SortDesc(s, sz) ==
    IF s = <<>> THEN <<>> ELSE InsertDesc(SortDesc(Front(s), sz), Last(s), sz)

IsSortedDesc(s, sz) == \A i \in 1..Len(s) - 1 : sz[s[i]] >= sz[s[i + 1]]

\* the entries of the subtree of n, n first, depth-first in read_dir order
RECURSIVE PreOrderOf(_)
PreOrderOf(n) ==
    LET es == Listing(n)
        RECURSIVE Walk(_)
        Walk(i) == IF i > Len(es) THEN <<>> ELSE PreOrderOf(es[i]) \o Walk(i + 1)
    IN  <<n>> \o Walk(1)

PreOrder == PreOrderOf(Root)

\* the filter is asked about every entry but the scanned root itself
EntryIgnored(filter, n) == n # Root /\ is_path_ignored(filter, AbsPath(n))

\* the entries a whole traversal keeps: not ignored, and below no ignored entry
RECURSIVE KeptBelow(_, _)
KeptBelow(n, filter) ==
    IF EntryIgnored(filter, n)
    THEN {}
    ELSE {n} \cup UNION {KeptBelow(Listing(n)[i], filter) : i \in 1..Len(Listing(n))}

Kept(filter) == KeptBelow(Root, filter)

VisibleEntries(d, kept) == SelectSeq(Listing(d), LAMBDA e : e \in kept)

\* a Dir sized by everything its directory lists, kept in the tree or not
RECURSIVE ScanSizeOfListing(_, _, _)
ScanSizeOfListing(n, disk, kept) ==
    IF ~IsDirEntry(n)
    THEN disk[n]
    ELSE LET es == Listing(n)
             RECURSIVE Sum(_)
             Sum(i) == IF i > Len(es) THEN 0
                       ELSE ScanSizeOfListing(es[i], disk, kept) + Sum(i + 1)
         IN  Sum(1)

RECURSIVE ScanSize(_, _, _)
ScanSize(n, disk, kept) ==
    IF ~IsDirEntry(n)
    THEN disk[n]
    ELSE LET es == VisibleEntries(n, kept)
             RECURSIVE Sum(_)
             Sum(i) == IF i > Len(es) THEN 0 ELSE ScanSize(es[i], disk, kept) + Sum(i + 1)
         IN  Sum(1)

ScanSizes(disk, kept) == [n \in Nodes |-> ScanSize(n, disk, kept)]

ScanChildren(disk, kept) ==
    [d \in Dirs |-> SortDesc(VisibleEntries(d, kept), ScanSizes(disk, kept))]

\* AnalysisResult as the consumer builds it from the tree of a completed scan
TreeResult(disk, kept) ==
    [root_path |-> RootPath,
     data_stack |-> <<Root>>,
     children |-> ScanChildren(disk, kept),
     size |-> ScanSizes(disk, kept)]

CompletedResult(disk, filter) == TreeResult(disk, Kept(filter))

\* no AnalysisResult (Option::None)
NoResult ==
    [root_path |-> <<>>,
     data_stack |-> <<>>,
     children |-> [d \in Dirs |-> <<>>],
     size |-> [n \in Nodes |-> 0]]

----------------------------------------------------------------------------
(* TreeMapPanel (src/src/ui/treemap_panel.rs) and AnalysisResult.          *)
(* Indices are Rust's, from 0; a method returns the AnalysisResult it      *)
(* leaves and whether it panicked.                                         *)

None == -1

\* the children of the Dir on top of the stack
TopChildren(ar) ==
    IF ar.data_stack # <<>> /\ IsDirEntry(Last(ar.data_stack))
    THEN ar.children[Last(ar.data_stack)]
    ELSE <<>>

Ret(ar, p) == [ar |-> ar, panic |-> p]

\* Vec::swap_remove: the last element takes the place of the removed one
swap_remove(v, index) ==
    [k \in 1..(Len(v) - 1) |-> IF k = index + 1 THEN v[Len(v)] ELSE v[k]]

InsertAt(v, pos, x) == SubSeq(v, 1, pos) \o <<x>> \o SubSeq(v, pos + 1, Len(v))

\* zoom_in taking the last child (Vec::pop) instead of the indexed one
zoom_in_pop(ar, can, index) ==
    IF ~can \/ ar.data_stack = <<>> \/ ~IsDirEntry(Last(ar.data_stack))
    THEN Ret(ar, FALSE)
    ELSE LET parent_node == Last(ar.data_stack)
             children == ar.children[parent_node]
         IN  IF index < Len(children) /\ ~IsDirEntry(children[index + 1])
             THEN Ret(ar, FALSE)
             ELSE IF index >= Len(children)
             THEN Ret(ar, TRUE)
             ELSE Ret([ar EXCEPT !.children[parent_node] = Front(children),
                                 !.data_stack = Append(@, Last(children))],
                      FALSE)

\* zoom_in pushing a copy of the child and leaving it in the collection
zoom_in_noremove(ar, can, index) ==
    IF ~can \/ ar.data_stack = <<>> \/ ~IsDirEntry(Last(ar.data_stack))
    THEN Ret(ar, FALSE)
    ELSE LET parent_node == Last(ar.data_stack)
             children == ar.children[parent_node]
         IN  IF index < Len(children) /\ ~IsDirEntry(children[index + 1])
             THEN Ret(ar, FALSE)
             ELSE IF index >= Len(children)
             THEN Ret(ar, TRUE)
             ELSE Ret([ar EXCEPT !.data_stack = Append(@, children[index + 1])], FALSE)

\* zoom_in that takes the departing child's size off its parent
zoom_in_resize(ar, can, index) ==
    IF ~can \/ ar.data_stack = <<>> \/ ~IsDirEntry(Last(ar.data_stack))
    THEN Ret(ar, FALSE)
    ELSE LET parent_node == Last(ar.data_stack)
             children == ar.children[parent_node]
         IN  IF index < Len(children) /\ ~IsDirEntry(children[index + 1])
             THEN Ret(ar, FALSE)
             ELSE IF index >= Len(children)
             THEN Ret(ar, TRUE)
             ELSE Ret([ar EXCEPT !.children[parent_node] = swap_remove(children, index),
                                 !.size[parent_node] = @ - ar.size[children[index + 1]],
                                 !.data_stack = Append(@, children[index + 1])],
                      FALSE)

\* zoom_in overwriting the top of the stack instead of pushing
zoom_in_replace_top(ar, can, index) ==
    IF ~can \/ ar.data_stack = <<>> \/ ~IsDirEntry(Last(ar.data_stack))
    THEN Ret(ar, FALSE)
    ELSE LET parent_node == Last(ar.data_stack)
             children == ar.children[parent_node]
         IN  IF index < Len(children) /\ ~IsDirEntry(children[index + 1])
             THEN Ret(ar, FALSE)
             ELSE IF index >= Len(children)
             THEN Ret(ar, TRUE)
             ELSE Ret([ar EXCEPT !.children[parent_node] = swap_remove(children, index),
                                 !.data_stack = Append(Front(@), children[index + 1])],
                      FALSE)

\* zoom_in without the test that lets a File through unchanged
zoom_in_nofilecheck(ar, can, index) ==
    IF ~can \/ ar.data_stack = <<>> \/ ~IsDirEntry(Last(ar.data_stack))
    THEN Ret(ar, FALSE)
    ELSE LET parent_node == Last(ar.data_stack)
             children == ar.children[parent_node]
         IN  IF index >= Len(children)
             THEN Ret(ar, TRUE)
             ELSE Ret([ar EXCEPT !.children[parent_node] = swap_remove(children, index),
                                 !.data_stack = Append(@, children[index + 1])],
                      FALSE)

\* zoom_in taking the child from the bottom of the stack (first_mut for last_mut)
zoom_in_first_parent(ar, can, index) ==
    IF ~can \/ ar.data_stack = <<>> \/ ~IsDirEntry(ar.data_stack[1])
    THEN Ret(ar, FALSE)
    ELSE LET parent_node == ar.data_stack[1]
             children == ar.children[parent_node]
         IN  IF index < Len(children) /\ ~IsDirEntry(children[index + 1])
             THEN Ret(ar, FALSE)
             ELSE IF index >= Len(children)
             THEN Ret(ar, TRUE)
             ELSE Ret([ar EXCEPT !.children[parent_node] = swap_remove(children, index),
                                 !.data_stack = Append(@, children[index + 1])],
                      FALSE)

\* zoom_in without the test of can_zoom_in
zoom_in_uncapped(ar, can, index) ==
    IF ar.data_stack = <<>> \/ ~IsDirEntry(Last(ar.data_stack))
    THEN Ret(ar, FALSE)
    ELSE LET parent_node == Last(ar.data_stack)
             children == ar.children[parent_node]
         IN  IF index < Len(children) /\ ~IsDirEntry(children[index + 1])
             THEN Ret(ar, FALSE)
             ELSE IF index >= Len(children)
             THEN Ret(ar, TRUE)
             ELSE Ret([ar EXCEPT !.children[parent_node] = swap_remove(children, index),
                                 !.data_stack = Append(@, children[index + 1])],
                      FALSE)

zoom_in(ar, can, index) ==
    IF ~can
    THEN Ret(ar, FALSE)
    ELSE IF ar.data_stack = <<>>
    THEN Ret(ar, FALSE)
    ELSE LET parent_node == Last(ar.data_stack) IN
         IF ~IsDirEntry(parent_node)
         THEN Ret(ar, FALSE)
         ELSE LET children == ar.children[parent_node] IN
              IF index < Len(children) /\ ~IsDirEntry(children[index + 1])
              THEN Ret(ar, FALSE)
              ELSE IF index >= Len(children)
              THEN Ret(ar, TRUE)   \* swap_remove panics: index out of bounds
              ELSE Ret([ar EXCEPT !.children[parent_node] = swap_remove(children, index),
                                  !.data_stack = Append(@, children[index + 1])],
                       FALSE)

\* ancestor re-select: index becomes the top of the stack, nothing is restored
selected_index(ar, index) ==
    [ar EXCEPT !.data_stack = SubSeq(@, 1, index + 1)]

\* zoom selecting len - 1, the index already on top (off by one)
zoom_off_by_one(ar, can, hovered_data_index, delta) ==
    IF delta > 0 /\ Len(ar.data_stack) >= 2
    THEN Ret(selected_index(ar, Len(ar.data_stack) - 1), FALSE)
    ELSE IF delta < 0 /\ hovered_data_index # None
    THEN zoom_in(ar, can, hovered_data_index)
    ELSE Ret(ar, FALSE)

zoom(ar, can, hovered_data_index, delta) ==
    IF delta > 0 /\ Len(ar.data_stack) >= 2
    THEN Ret(selected_index(ar, Len(ar.data_stack) - 2), FALSE)
    ELSE IF delta < 0 /\ hovered_data_index # None
    THEN zoom_in(ar, can, hovered_data_index)
    ELSE Ret(ar, FALSE)

\* explicit pop: the top goes back into the child collection of the Dir below it
zoom_out(ar, pos) ==
    IF Len(ar.data_stack) < 2
    THEN ar
    ELSE LET popped == Last(ar.data_stack)
             parent == ar.data_stack[Len(ar.data_stack) - 1]
         IN  [ar EXCEPT !.data_stack = Front(@),
                        !.children[parent] = InsertAt(@, pos, popped)]

\* TreemapLayout::layout_items on the children of the top of the stack: the
\* crate sorts the items descending by size before it places them
layout_items(ar) ==
    LET top == Last(ar.data_stack)
    IN  [ar EXCEPT !.children[top] = SortDesc(@, ar.size)]

\* bounds.w > 0.0 && bounds.h > 0.0 after the layout pass
PositiveBounds(ar, n) == ar.size[n] > 0

RECURSIVE wheel_events(_, _, _)
wheel_events(r, can, deltas) ==
    IF deltas = <<>> \/ r.panic
    THEN r
    ELSE wheel_events(zoom(r.ar, can, None, deltas[1]), can, Tail(deltas))

\* the index show remembers, numbering the children from 1 instead of 0
clicked_data_index_from_1(children, laid, clicked) ==
    IF /\ clicked # None
       /\ clicked < Len(children)
       /\ PositiveBounds(laid, children[clicked + 1])
       /\ IsDirEntry(children[clicked + 1])
    THEN clicked + 1
    ELSE None

\* the index show remembers for zoom_in: that of the laid-out child the user
\* double-clicks, if it has positive bounds and is a Dir
clicked_data_index(children, laid, clicked) ==
    IF /\ clicked # None
       /\ clicked < Len(children)
       /\ PositiveBounds(laid, children[clicked + 1])
       /\ IsDirEntry(children[clicked + 1])
    THEN clicked
    ELSE None

\* the AnalysisResult after the layout pass of show
laid_out(ar) == IF IsDirEntry(Last(ar.data_stack)) THEN layout_items(ar) ELSE ar

\* one display pass: `clicked` is the child the user double-clicks (None:
\* no click), `deltas` the MouseWheel events of the frame
show(ar, can, clicked, deltas) ==
    IF ar.data_stack = <<>>
    THEN Ret(ar, TRUE)   \* data_stack[1..] panics on an empty stack
    ELSE LET laid == laid_out(ar)
             index == clicked_data_index(TopChildren(laid), laid, clicked)
             r == IF index # None
                  THEN zoom_in(laid, can, index)
                  ELSE Ret(laid, FALSE)
         IN  wheel_events(r, can, deltas)

----------------------------------------------------------------------------
(* util::get_file_size (src/src/util.rs).  An entry handed to it has its    *)
(* own metadata (what lstat would give: 512-byte blocks allocated, logical  *)
(* length) and, if it is a symbolic link, the metadata of its target; ok    *)
(* tells whether Path::metadata succeeds on it (an unreadable or vanished   *)
(* entry, a dangling or looping link make it fail).                         *)

BlockBytes == 512

\* u64::MAX, scaled down to the sizes of the model
U64_MAX == 1023

MaxBlocks == 2

Lengths == {b * BlockBytes + r : b \in 0..MaxBlocks, r \in {0, 1}} \cap 0..U64_MAX

Metas == [blocks : 0..MaxBlocks, len : Lengths]

\* a symbolic link itself: a short target path, kept in the inode or in one block
LinkMetas == [blocks : {0, 1}, len : {1}]

ProbeEntries ==
    {[is_symlink |-> FALSE, ok |-> r, own |-> m, target |-> m] :
         r \in BOOLEAN, m \in Metas}
    \cup {[is_symlink |-> TRUE, ok |-> r, own |-> l, target |-> m] :
              r \in BOOLEAN, l \in LinkMetas, m \in Metas}

\* nothing was handed to get_file_size
NoProbe ==
    [unix |-> TRUE, asked |-> FALSE,
     entry |-> [is_symlink |-> FALSE, ok |-> FALSE,
                own |-> [blocks |-> 0, len |-> 0], target |-> [blocks |-> 0, len |-> 0]],
     size |-> None]

saturating_mul(a, b) == IF a * b > U64_MAX THEN U64_MAX ELSE a * b

\* Path::metadata is stat: it resolves a symbolic link and answers for the target
metadata(e) ==
    [ok |-> e.ok, meta |-> IF e.is_symlink THEN e.target ELSE e.own]

\* get_file_size taking a file whose blocks just cover its length for sparse
get_file_size_le(unix, e) ==
    LET r == metadata(e) IN
    IF unix
    THEN IF r.ok
         THEN LET physical == saturating_mul(r.meta.blocks, BlockBytes)
                  logical == r.meta.len
              IN  IF physical <= logical THEN 0 ELSE physical
         ELSE 0
    ELSE IF r.ok THEN r.meta.len ELSE 0

\* get_file_size for the build target: unix tells which cfg branch is compiled
get_file_size(unix, e) ==
    LET r == metadata(e) IN
    IF unix
    THEN IF r.ok
         THEN LET physical == saturating_mul(r.meta.blocks, BlockBytes)
                  logical == r.meta.len
              IN  IF physical < logical THEN 0 ELSE physical
         ELSE 0
    ELSE IF r.ok THEN r.meta.len ELSE 0

----------------------------------------------------------------------------
(* The scanner (spec 4.1, 5): a worker per scan walks the tree and sends    *)
(* progress and, at the end, the tree over the scan's channel; the consumer *)
(* polls without blocking, may cancel, and may start another scan.          *)

Op(op, index, delta, pre, pre2) ==
    [op |-> op, index |-> index, delta |-> delta, pre |-> pre, pre2 |-> pre2]

ScanIds == 1..MaxScans

IdleWorker ==
    [status |-> "idle", pos |-> 1, kept |-> {}, errors |-> 0, filter |-> DefaultSettings]

\* errors: the count of per-entry errors a completed scan reported.
\* discarded: emitted messages were dropped unread; diverged: the worker kept an
\* entry that the shared settings ignored by then.  Both are forgotten, with
\* started_with once the worker has ended, when a later scan starts.
NoLog ==
    [outcome |-> "none", started_with |-> DefaultSettings, errors |-> 0,
     discarded |-> FALSE, diverged |-> FALSE]

CloseLog(k, outcome) ==
    [NoLog EXCEPT !.outcome = outcome,
                  !.started_with = IF workers[k].status = "running"
                                   THEN scan_log[k].started_with
                                   ELSE DefaultSettings]

ProgressMsg == [type |-> "progress", kept |-> {}, errors |-> 0]

\* the completed tree, with the count of the entries that could not be read
DoneMsg(kept, errors) == [type |-> "done", kept |-> kept, errors |-> errors]

\* the root itself could not be read: the scan fails
FailedMsg == [type |-> "failed", kept |-> {}, errors |-> 0]

\* a worker that ended: its thread is gone, and its partial tree with it
Ended(status) == [IdleWorker EXCEPT !.status = status]

\* passing over the entry alone, and going on with what lies below it
SubtreeSizeOne(n) == 1

\* the entries of the subtree of n
SubtreeSize(n) == Len(PreOrderOf(n))

\* the worker consulting the shared settings at every entry
WorkerIgnoresLive(k, n) == EntryIgnored(settings, n)

\* the worker consults the filter it was started with
WorkerIgnores(k, n) == EntryIgnored(workers[k].filter, n)

\* a worker that never looks at the cancellation signal
CancelNeverSeen(k) == FALSE

\* the worker looks at the shared cancellation signal before every step
CancelRequested(k) == cancel[k]

\* a send that goes through although the receiver was dropped
SendAlwaysOk(k) == TRUE

\* Sender::send: fails once the receiver is dropped (MyError::ReceiverDropped)
SendOk(k) == rx = k

\* a worker that gives the scan up at an entry it cannot read
OnEntryErrorAbort(w, n) == Ended("failed")

\* a per-entry I/O error: counted, and the entry skipped with all below it
OnEntryError(w, n) == [w EXCEPT !.pos = @ + SubtreeSize(n), !.errors = @ + 1]

\* one traversal step of the worker of scan k
WorkerStep(k) ==
    /\ workers[k].status = "running"
    /\ LET w == workers[k] IN
       IF CancelRequested(k)
       THEN /\ workers' = [workers EXCEPT ![k] = Ended("cancelled")]
            /\ UNCHANGED chan
       ELSE IF w.pos > Len(PreOrder)
       THEN IF SendOk(k)
            THEN /\ workers' = [workers EXCEPT ![k] = Ended("completed")]
                 /\ chan' = [chan EXCEPT ![k] = Append(@, DoneMsg(w.kept, w.errors))]
            ELSE /\ workers' = [workers EXCEPT ![k] = Ended("receiver_dropped")]
                 /\ UNCHANGED chan
       ELSE LET n == PreOrder[w.pos] IN
            IF WorkerIgnores(k, n)
            THEN /\ workers' = [workers EXCEPT ![k].pos = @ + SubtreeSize(n)]
                 /\ UNCHANGED chan
            ELSE IF n \in io_error /\ n = Root
            THEN IF SendOk(k)
                 THEN /\ workers' = [workers EXCEPT ![k] = Ended("failed")]
                      /\ chan' = [chan EXCEPT ![k] = Append(@, FailedMsg)]
                 ELSE /\ workers' = [workers EXCEPT ![k] = Ended("receiver_dropped")]
                      /\ UNCHANGED chan
            ELSE IF n \in io_error
            THEN /\ workers' = [workers EXCEPT ![k] = OnEntryError(w, n)]
                 /\ UNCHANGED chan
            ELSE IF SendOk(k)
            THEN /\ workers' = [workers EXCEPT ![k].pos = @ + 1,
                                               ![k].kept = @ \cup {n}]
                 /\ chan' = [chan EXCEPT ![k] = Append(@, ProgressMsg)]
            ELSE /\ workers' = [workers EXCEPT ![k] = Ended("receiver_dropped")]
                 /\ UNCHANGED chan
    /\ scan_log' = [scan_log EXCEPT ![k].diverged =
           @ \/ /\ workers'[k].status = "running"
                /\ \E n \in workers'[k].kept \ workers[k].kept : EntryIgnored(settings, n)]
    /\ UNCHANGED <<disk_vars, settings, analysis_result, can_zoom_in, panicked, last,
                   cancel, rx, result_of>>

Started == {k \in ScanIds : scan_log[k].outcome # "none"}

\* start a scan: the receiver of the scan before it, if still held, is dropped
\* and the tree of the result before it is destroyed
StartScan ==
    /\ Cardinality(Started) < MaxScans
    /\ LET k == Cardinality(Started) + 1 IN
       /\ workers' = [workers EXCEPT ![k] =
              [status |-> "running", pos |-> 1, kept |-> {}, errors |-> 0,
               filter |-> settings]]
       /\ chan' = [j \in ScanIds |-> IF j = rx THEN <<>> ELSE chan[j]]
       /\ scan_log' = [j \in ScanIds |->
              IF j = k THEN [NoLog EXCEPT !.outcome = "running", !.started_with = settings]
              ELSE IF j = rx THEN CloseLog(j, "replaced")
              ELSE IF j < k THEN CloseLog(j, scan_log[j].outcome)
              ELSE scan_log[j]]
       /\ rx' = k
    /\ analysis_result' = NoResult
    /\ result_of' = 0
    /\ UNCHANGED <<disk_vars, settings, can_zoom_in, panicked, last, cancel>>

\* the message the consumer takes off the channel
Receive(k, msg) ==
    IF msg.type = "done"
    THEN /\ analysis_result' = TreeResult(fs_size, msg.kept)
         /\ result_of' = k
         /\ scan_log' = [scan_log EXCEPT ![k].outcome = "completed",
                                         ![k].errors = msg.errors]
         /\ rx' = 0
    ELSE IF msg.type = "failed"
    THEN /\ scan_log' = [scan_log EXCEPT ![k].outcome = "failed"]
         /\ rx' = 0
         /\ UNCHANGED <<analysis_result, result_of>>
    ELSE UNCHANGED <<analysis_result, result_of, scan_log, rx>>

\* one non-blocking poll (try_recv) of the consumer
Poll ==
    /\ rx # 0
    /\ chan[rx] # <<>>
    /\ Receive(rx, Head(chan[rx]))
    /\ chan' = [chan EXCEPT ![rx] = Tail(@)]
    /\ UNCHANGED <<disk_vars, settings, can_zoom_in, panicked, last, workers, cancel>>

\* the consumer cancels the scan it is waiting for: it raises the signal and
\* drops the receiver with whatever was emitted and not yet received
Cancel ==
    /\ rx # 0
    /\ cancel' = [cancel EXCEPT ![rx] = TRUE]
    /\ scan_log' = [scan_log EXCEPT ![rx].outcome = "cancelled",
                                    ![rx].discarded = chan[rx] # <<>>]
    /\ chan' = [chan EXCEPT ![rx] = <<>>]
    /\ rx' = 0
    /\ UNCHANGED <<disk_vars, settings, analysis_result, can_zoom_in, panicked, last,
                   workers, result_of>>

\* the entry under the context menu: the directory C
IgnorablePaths == {AbsPath(3)}

\* Settings::add_ignored_path, e.g. from "Ignore path" of the context menu
AddIgnoredPath(path) ==
    /\ Len(settings.ignored_path) < MaxIgnored
    /\ settings' = add_ignored_path(settings, path)
    /\ UNCHANGED <<disk_vars, analysis_result, can_zoom_in, panicked, last, scan_vars>>

InitScan ==
    /\ fs_size = [f \in Files |-> MaxFileSize]
    /\ io_error = {}
    /\ file_probe = NoProbe
    /\ settings_file = NoFile
    /\ settings \in {[DefaultSettings EXCEPT !.ignore_cloud_mounts = b] : b \in BOOLEAN}
    /\ analysis_result = NoResult
    /\ can_zoom_in = FALSE
    /\ panicked = FALSE
    /\ last = Op("new", None, 0, NoResult, NoResult)
    /\ workers = [k \in ScanIds |-> IdleWorker]
    /\ chan = [k \in ScanIds |-> <<>>]
    /\ cancel = [k \in ScanIds |-> FALSE]
    /\ rx = 0
    /\ result_of = 0
    /\ scan_log = [k \in ScanIds |-> NoLog]

NextScan ==
    \/ StartScan
    \/ \E k \in ScanIds : WorkerStep(k)
    \/ Poll
    \/ Cancel
    \/ \E path \in IgnorablePaths : AddIgnoredPath(path)

SpecScan == InitScan /\ [][NextScan]_vars

\* nothing was scanned and no scan is under way
NothingScanned ==
    /\ analysis_result = NoResult
    /\ can_zoom_in = FALSE
    /\ panicked = FALSE
    /\ last = Op("new", None, 0, NoResult, NoResult)
    /\ workers = [k \in ScanIds |-> IdleWorker]
    /\ chan = [k \in ScanIds |-> <<>>]
    /\ cancel = [k \in ScanIds |-> FALSE]
    /\ rx = 0
    /\ result_of = 0
    /\ scan_log = [k \in ScanIds |-> NoLog]

\* get_file_size called once, on any entry, in a build for either target
InitFileSize ==
    /\ fs_size = [f \in Files |-> 0]
    /\ io_error = {}
    /\ file_probe \in {[NoProbe EXCEPT !.unix = u, !.entry = e] :
                           u \in BOOLEAN, e \in ProbeEntries}
    /\ settings_file = NoFile
    /\ settings = DefaultSettings
    /\ NothingScanned

GetFileSize ==
    /\ ~file_probe.asked
    /\ file_probe' = [file_probe EXCEPT
           !.asked = TRUE,
           !.size = get_file_size(file_probe.unix, file_probe.entry)]
    /\ UNCHANGED <<fs_size, io_error, settings_file, settings, analysis_result,
                   can_zoom_in, panicked, last, scan_vars>>

SpecFileSize == InitFileSize /\ [][GetFileSize]_vars

\* one scan, from its start to the delivery of its tree, on any disk and under
\* any ignore list: the entries that cannot be read are the root alone, or
\* any of the file D and the directory E
FailingSets == {{Root}} \cup SUBSET {4, 5}

IgnoredLists == UNION {[1..n -> IgnorablePaths] : n \in 0..MaxIgnored}

InitOneScan ==
    /\ fs_size \in [Files -> 0..MaxFileSize]
    /\ io_error \in FailingSets
    /\ file_probe = NoProbe
    /\ settings_file = NoFile
    /\ settings \in {[DefaultSettings EXCEPT !.ignore_cloud_mounts = b, !.ignored_path = l] :
                         b \in BOOLEAN, l \in IgnoredLists}
    /\ NothingScanned

StartFirstScan == Started = {} /\ StartScan

NextOneScan ==
    \/ StartFirstScan
    \/ \E k \in ScanIds : WorkerStep(k)
    \/ Poll
    \/ \E path \in IgnorablePaths : AddIgnoredPath(path)

SpecOneScan == InitOneScan /\ [][NextOneScan]_vars

\* the Settings from start-up on: Settings::default reads the settings file if
\* there is one, then the operations of Settings are called in any order
CustomThreshold == 1

StoredSettings ==
    [color_scheme : ColorSchemes, theme : Themes, ignored_path : IgnoredLists,
     ignore_cloud_mounts : BOOLEAN,
     big_file_threshold : {BIG_FILE_THRESHOLD, CustomThreshold}]

InitSettings ==
    /\ fs_size = [f \in Files |-> 0]
    /\ io_error = {}
    /\ file_probe = NoProbe
    /\ settings_file \in {NoFile} \cup {FileWith(c) : c \in StoredSettings}
    /\ settings = IF settings_file.written
                  THEN Deserialized(settings_file.content)
                  ELSE DefaultSettings
    /\ NothingScanned

SettingsOp(op) == Op(op, None, 0, NoResult, NoResult)

SetColorScheme(scheme) ==
    /\ settings' = color_scheme_mut(settings, scheme)
    /\ last' = SettingsOp("color_scheme_mut")
    /\ UNCHANGED <<disk_vars, analysis_result, can_zoom_in, panicked, scan_vars>>

SetTheme(theme) ==
    /\ settings' = set_theme(settings, theme)
    /\ last' = SettingsOp("set_theme")
    /\ UNCHANGED <<disk_vars, analysis_result, can_zoom_in, panicked, scan_vars>>

\* a caller of ignored_paths_mut taking the last path off the list
RemoveIgnoredPath ==
    /\ settings.ignored_path # <<>>
    /\ settings' = [settings EXCEPT !.ignored_path = Front(@)]
    /\ last' = SettingsOp("ignored_paths_mut")
    /\ UNCHANGED <<disk_vars, analysis_result, can_zoom_in, panicked, scan_vars>>

ResetBigFileThreshold ==
    /\ settings' = reset_big_file_threshold(settings)
    /\ last' = SettingsOp("reset_big_file_threshold")
    /\ UNCHANGED <<disk_vars, analysis_result, can_zoom_in, panicked, scan_vars>>

Save(home, io_ok) ==
    /\ settings_file' = save(settings, settings_file, home, io_ok)
    /\ last' = SettingsOp("save")
    /\ UNCHANGED <<fs_size, io_error, file_probe, settings, analysis_result,
                   can_zoom_in, panicked, scan_vars>>

NextSettings ==
    \/ \E scheme \in ColorSchemes : SetColorScheme(scheme)
    \/ \E theme \in Themes : SetTheme(theme)
    \/ \E path \in IgnorablePaths : AddIgnoredPath(path)
    \/ RemoveIgnoredPath
    \/ ResetBigFileThreshold
    \/ \E home \in BOOLEAN, io_ok \in BOOLEAN : Save(home, io_ok)

SpecSettings == InitSettings /\ [][NextSettings]_vars

\* every worker is a thread of its own, which the system keeps running
SpecScanFair == SpecScan /\ \A k \in ScanIds : WF_vars(WorkerStep(k))

----------------------------------------------------------------------------
(* The navigation of a completed scan's result *)

Deltas == {-1, 0, 1}

WheelSeqs == UNION {[1..k -> Deltas] : k \in 0..MaxWheelEvents}

Indices(ar) == 0..(Len(TopChildren(ar)) - 1)

\* the places where an explicit pop may put the node back
RestorePositions(ar) ==
    IF Len(ar.data_stack) >= 2
    THEN 0..Len(ar.children[ar.data_stack[Len(ar.data_stack) - 1]])
    ELSE {0}

PanelLive == ~panicked /\ analysis_result # NoResult

Init ==
    /\ fs_size \in [Files -> 0..MaxFileSize]
    /\ io_error = {}
    /\ file_probe = NoProbe
    /\ settings_file = NoFile
    /\ settings \in {DefaultSettings, [DefaultSettings EXCEPT !.ignore_cloud_mounts = FALSE]}
    /\ analysis_result = CompletedResult(fs_size, settings)
    /\ can_zoom_in \in BOOLEAN
    /\ panicked = FALSE
    /\ last = Op("scan", None, 0, NoResult, NoResult)
    /\ workers = [k \in ScanIds |->
           IF k = 1
           THEN Ended("completed")
           ELSE IdleWorker]
    /\ chan = [k \in ScanIds |-> <<>>]
    /\ cancel = [k \in ScanIds |-> FALSE]
    /\ rx = 0
    /\ result_of = 1
    /\ scan_log = [k \in ScanIds |->
           IF k = 1
           THEN [NoLog EXCEPT !.outcome = "completed", !.started_with = settings]
           ELSE NoLog]

\* TreeMapPanel::new: the caller decides whether zooming is allowed
NewPanel(flag) ==
    /\ PanelLive
    /\ can_zoom_in' = flag
    /\ last' = Op("new", None, 0, NoResult, NoResult)
    /\ UNCHANGED <<disk_vars, settings, analysis_result, panicked, scan_vars>>

ZoomIn(index) ==
    /\ PanelLive
    /\ LET r == zoom_in(analysis_result, can_zoom_in, index)
       IN  /\ analysis_result' = r.ar
           /\ panicked' = r.panic
    /\ last' = Op("zoom_in", index, 0, analysis_result, NoResult)
    /\ UNCHANGED <<disk_vars, settings, can_zoom_in, scan_vars>>

Zoom(hovered, delta) ==
    /\ PanelLive
    /\ LET r == zoom(analysis_result, can_zoom_in, hovered, delta)
       IN  /\ analysis_result' = r.ar
           /\ panicked' = r.panic
    /\ last' = Op("zoom", None, delta, analysis_result, NoResult)
    /\ UNCHANGED <<disk_vars, settings, can_zoom_in, scan_vars>>

\* the zoom_in that the last step performed, if it pushed a node
ZoomedIn ==
    /\ last.op = "zoom_in"
    /\ Len(analysis_result.data_stack) = Len(last.pre.data_stack) + 1

ZoomOut(pos) ==
    /\ PanelLive
    /\ analysis_result' = zoom_out(analysis_result, pos)
    /\ last' = Op("zoom_out", Len(analysis_result.data_stack), 0, NoResult,
                  IF ZoomedIn THEN last.pre ELSE NoResult)
    /\ UNCHANGED <<disk_vars, settings, can_zoom_in, panicked, scan_vars>>

Show(clicked, deltas) ==
    /\ PanelLive
    /\ LET r == show(analysis_result, can_zoom_in, clicked, deltas)
       IN  /\ analysis_result' = r.ar
           /\ panicked' = r.panic
    /\ last' = Op("show", None, 0, NoResult, NoResult)
    /\ UNCHANGED <<disk_vars, settings, can_zoom_in, scan_vars>>

Next ==
    \/ \E flag \in BOOLEAN : NewPanel(flag)
    \/ \E index \in Indices(analysis_result) : ZoomIn(index)
    \/ \E hovered \in {None} \cup Indices(analysis_result), delta \in Deltas :
           Zoom(hovered, delta)
    \/ \E pos \in RestorePositions(analysis_result) : ZoomOut(pos)
    \/ \E clicked \in {None} \cup Indices(analysis_result), deltas \in WheelSeqs :
           Show(clicked, deltas)

Spec == Init /\ [][Next]_vars

\* zoom_in called with any index, the one past the last child included
NextAnyIndex ==
    \/ Next
    \/ ZoomIn(Len(TopChildren(analysis_result)))

SpecAnyIndex == Init /\ [][NextAnyIndex]_vars

----------------------------------------------------------------------------
(* Properties of the navigation stack *)

Count(v, x) == Cardinality({i \in 1..Len(v) : v[i] = x})

SameBag(v, w) ==
    /\ Len(v) = Len(w)
    /\ \A x \in Range(v) \cup Range(w) : Count(v, x) = Count(w, x)

NoRepeat(v) == \A i, j \in 1..Len(v) : v[i] = v[j] => i = j

\* the nodes the AnalysisResult owns: the stack and all that hangs below it
RECURSIVE Below(_, _)
Below(ar, n) ==
    IF IsDirEntry(n)
    THEN {n} \cup UNION {Below(ar, ar.children[n][i]) : i \in 1..Len(ar.children[n])}
    ELSE {n}

Live(ar) == UNION {Below(ar, ar.data_stack[i]) : i \in 1..Len(ar.data_stack)}

LiveDirs(ar) == Live(ar) \cap Dirs

\* the child that the last zoom_in was asked for
AskedChild == TopChildren(last.pre)[last.index + 1]

ZoomInOnDir == last.op = "zoom_in" /\ can_zoom_in /\ IsDirEntry(AskedChild)

ZoomInOnFile == last.op = "zoom_in" /\ ~IsDirEntry(AskedChild)

\* C1: a zoom_in that is allowed and asked for a Dir child of the top Dir
\* removes exactly that child from the top Dir's children (the others stay,
\* one child fewer), pushes it as the new top, and the stack is one deeper.
C1_ZoomInMovesDir ==
    ZoomInOnDir =>
        LET pre == last.pre
            parent == Last(pre.data_stack)
            old == pre.children[parent]
            now == analysis_result.children[parent]
        IN  /\ ~panicked
            /\ Len(now) = Len(old) - 1
            /\ Count(now, AskedChild) = Count(old, AskedChild) - 1
            /\ \A x \in Range(old) \ {AskedChild} : Count(now, x) = Count(old, x)
            /\ Range(now) \subseteq Range(old)
            /\ \A d \in Dirs \ {parent} : analysis_result.children[d] = pre.children[d]
            /\ analysis_result.data_stack = Append(pre.data_stack, AskedChild)
            /\ Len(analysis_result.data_stack) = Len(pre.data_stack) + 1

\* a zoom_in on a Dir that is not the last of three or more children: the
\* swap with the last child is visible
C1_Witness ==
    /\ ZoomInOnDir
    /\ Len(TopChildren(last.pre)) >= 3
    /\ last.index + 1 < Len(TopChildren(last.pre))

SizeAtScan == ScanSizes(fs_size, Kept(settings))

ChildrenAtScan == ScanChildren(fs_size, Kept(settings))

\* the children of d at scan completion that are not in its collection now
Detached(ar, d) ==
    SelectSeq(ChildrenAtScan[d], LAMBDA c : c \notin Range(ar.children[d]))

\* C2 as stated: every Dir's size is the sum of the sizes of the children now
\* in its collection, and is its size at scan completion.
C2_SizeIsSumOfCurrentChildren ==
    \A d \in LiveDirs(analysis_result) :
        /\ analysis_result.size[d] = SumSeq(analysis_result.children[d], analysis_result.size)
        /\ analysis_result.size[d] = SizeAtScan[d]

\* C2 amended: every Dir's size stays its size at scan completion, and is the
\* sum of the sizes of the children now in its collection plus those of the
\* children zoom_in detached from it that no zoom_out has put back.
C2_SizeFixedAtScan ==
    \A d \in LiveDirs(analysis_result) :
        /\ analysis_result.size[d] = SizeAtScan[d]
        /\ NoRepeat(analysis_result.children[d])
        /\ Range(analysis_result.children[d]) \subseteq Range(ChildrenAtScan[d])
        /\ analysis_result.size[d] =
               SumSeq(analysis_result.children[d], analysis_result.size)
             + SumSeq(Detached(analysis_result, d), analysis_result.size)

\* a Dir on the stack whose size exceeds the sum over its current children
C2_Witness ==
    \E d \in LiveDirs(analysis_result) :
        /\ Detached(analysis_result, d) # <<>>
        /\ analysis_result.size[d] >
               SumSeq(analysis_result.children[d], analysis_result.size)

\* C3: no node is owned twice: not twice on the stack, not twice among the
\* child collections, not on the stack and in a child collection.
C3_NoNodeDuplicated ==
    /\ NoRepeat(analysis_result.data_stack)
    /\ \A d \in LiveDirs(analysis_result) :
           /\ NoRepeat(analysis_result.children[d])
           /\ Range(analysis_result.children[d]) \cap Range(analysis_result.data_stack) = {}
           /\ \A e \in LiveDirs(analysis_result) \ {d} :
                  Range(analysis_result.children[d]) \cap Range(analysis_result.children[e]) = {}

\* an explicit zoom_out has put a node back while another stays on the stack
C3_Witness ==
    /\ last.op = "zoom_out"
    /\ last.index = 3
    /\ Len(analysis_result.data_stack) = 2

\* C4: while a result exists, the stack is not empty, its bottom is the root
\* Dir and every element but the last is a Dir.
C4_StackShape ==
    analysis_result # NoResult =>
        /\ analysis_result.data_stack # <<>>
        /\ analysis_result.data_stack[1] = Root
        /\ IsDirEntry(Root)
        /\ \A i \in 1..(Len(analysis_result.data_stack) - 1) :
               IsDirEntry(analysis_result.data_stack[i])

\* an ancestor re-select from depth 3 left a stack of depth 2
C4_Witness ==
    /\ last.op = "zoom"
    /\ last.delta > 0
    /\ Len(last.pre.data_stack) = 3
    /\ Len(analysis_result.data_stack) = 2

\* C5: zoom_in on a Dir child then explicit zoom_out is a round trip: same
\* stack, the same children in every collection (order aside), the pop alone
\* makes the stack one shallower, and every size is what it was.
C5_ZoomRoundTrip ==
    (last.op = "zoom_out" /\ last.pre2 # NoResult) =>
        /\ analysis_result.data_stack = last.pre2.data_stack
        /\ Len(analysis_result.data_stack) = last.index - 1
        /\ \A d \in Dirs : SameBag(analysis_result.children[d], last.pre2.children[d])
        /\ Last(last.pre2.data_stack) \in Dirs
        /\ analysis_result.size = last.pre2.size

\* a round trip that leaves the parent's children in another order
C5_Witness ==
    /\ last.op = "zoom_out"
    /\ last.pre2 # NoResult
    /\ TopChildren(analysis_result) # TopChildren(last.pre2)

\* C6: zoom_in on a File child changes nothing: the stack and every child
\* collection, order included, are as before.
C6_ZoomInFileNoOp ==
    ZoomInOnFile => (analysis_result = last.pre /\ ~panicked)

\* zoom_in asked for a File while zooming is allowed
C6_Witness == ZoomInOnFile /\ can_zoom_in /\ Len(TopChildren(last.pre)) >= 2

\* the path show builds: root_path joined with the names of data_stack[1..]
RECURSIVE PushNames(_, _)
PushNames(path, items) ==
    IF items = <<>> THEN path ELSE PushNames(Append(path, Name(items[1])), Tail(items))

full_path(ar) == PushNames(ar.root_path, Tail(ar.data_stack))

\* C7: root_path joined with the names of data_stack[1..] is the absolute
\* path of the displayed directory.
C7_FullPathIsDisplayedDir ==
    analysis_result # NoResult =>
        full_path(analysis_result) = AbsPath(Last(analysis_result.data_stack))

\* a display pass zoomed into a directory two levels below the root
C7_Witness ==
    /\ last.op = "show"
    /\ Len(analysis_result.data_stack) = 3

\* C8: ancestor re-select (zoom with a positive delta): from depth >= 2 the
\* stack index depth - 2 becomes the top and no child collection changes, so
\* the Dirs zoomed into stay out of their parents' children; below depth 2
\* nothing changes.
C8_AncestorReselect ==
    (last.op = "zoom" /\ last.delta > 0) =>
        LET pre == last.pre
            depth == Len(pre.data_stack)
        IN  /\ ~panicked
            /\ IF depth >= 2
               THEN /\ analysis_result.data_stack = SubSeq(pre.data_stack, 1, depth - 1)
                    /\ Last(analysis_result.data_stack) = pre.data_stack[depth - 1]
                    /\ analysis_result.children = pre.children
                    /\ analysis_result.size = pre.size
                    /\ \A i \in 2..depth :
                           pre.data_stack[i] \notin
                               Range(analysis_result.children[pre.data_stack[i - 1]])
               ELSE analysis_result = pre

\* an ancestor re-select from depth 2 that leaves a detached Dir of nonzero size
C8_Witness ==
    /\ last.op = "zoom"
    /\ last.delta > 0
    /\ Len(last.pre.data_stack) = 2
    /\ analysis_result.size[Last(last.pre.data_stack)] > 0
    /\ Last(last.pre.data_stack) \notin Live(analysis_result)

----------------------------------------------------------------------------
(* Properties of the scanner *)

Cancelled(k) == scan_log[k].outcome = "cancelled"

\* a cancelled scan delivers nothing, and a result is a completed scan's whole tree
NoTreeFromCancelledScan ==
    /\ \A k \in ScanIds :
           Cancelled(k) => (result_of # k /\ rx # k /\ chan[k] = <<>>)
    /\ analysis_result # NoResult =>
           /\ result_of \in ScanIds
           /\ scan_log[result_of].outcome = "completed"
           /\ analysis_result =
                  TreeResult(fs_size, Kept(scan_log[result_of].started_with))

\* "cancelled" is terminal, and a worker that moves after the signal only stops
CancelledStaysAndWorkerStops ==
    \A k \in ScanIds :
        /\ Cancelled(k) => Cancelled(k)'
        /\ (cancel[k] /\ workers[k].status = "running" /\ workers'[k] # workers[k]) =>
               (workers'[k].status = "cancelled" /\ chan' = chan)

\* C9: a scan cancelled before the consumer has its tree never delivers one:
\* its outcome is and stays "cancelled", its worker stops at its next step,
\* and only a completed scan's whole tree ever becomes the AnalysisResult.
C9_CancelDeliversNoTree ==
    [] NoTreeFromCancelledScan /\ [][CancelledStaysAndWorkerStops]_vars

\* a scan was cancelled with messages already emitted, and its worker has stopped
C9_Witness ==
    \E k \in ScanIds :
        /\ Cancelled(k)
        /\ scan_log[k].discarded
        /\ workers[k].status = "cancelled"

Visited(k) == Range(SubSeq(PreOrder, 1, workers[k].pos - 1))

\* C10: a scan skips and keeps entries by the ignore list in force when it
\* started, whatever is added to the settings while it runs: at every step
\* the worker has kept the visited entries that the settings at its start do
\* not ignore, and the tree delivered is the one those settings give.
C10_IgnoreListSnapshot ==
    /\ \A k \in ScanIds :
           /\ workers[k].status = "running" =>
                  /\ workers[k].pos \in 1..(Len(PreOrder) + 1)
                  /\ workers[k].kept = Kept(scan_log[k].started_with) \cap Visited(k)
           /\ \A i \in 1..Len(chan[k]) :
                  chan[k][i].type = "done" =>
                      chan[k][i].kept = Kept(scan_log[k].started_with)
    /\ result_of # 0 =>
           analysis_result = TreeResult(fs_size, Kept(scan_log[result_of].started_with))

\* a delivered tree holds an entry that the settings had come to ignore when
\* the worker reached it
C10_Witness ==
    /\ result_of # 0
    /\ scan_log[result_of].diverged
    /\ \E n \in Live(analysis_result) : EntryIgnored(settings, n)

Replaced(k) == scan_log[k].outcome = "replaced"

\* nothing of a replaced scan is with the consumer or on its way to it
ReplacedChannelInvalid ==
    \A k \in ScanIds : Replaced(k) => (rx # k /\ result_of # k /\ chan[k] = <<>>)

\* "replaced" is terminal, and a step of the worker of a replaced scan either
\* skips an ignored entry, which sends nothing, or fails to send and ends the
\* worker; the consumer sees nothing of it
ReplacedWorkerOnlyStops ==
    \A k \in ScanIds :
        /\ Replaced(k) => Replaced(k)'
        /\ (Replaced(k) /\ workers[k].status = "running" /\ workers'[k] # workers[k]) =>
               /\ chan' = chan
               /\ analysis_result' = analysis_result
               /\ result_of' = result_of
               /\ rx' = rx
               /\ \/ workers'[k].status = "receiver_dropped"
                  \/ /\ workers'[k].status = "running"
                     /\ workers[k].pos <= Len(PreOrder)
                     /\ WorkerIgnores(k, PreOrder[workers[k].pos])

ReplacedWorkerEnds ==
    \A k \in ScanIds :
        (Replaced(k) /\ workers[k].status = "running")
            ~> (workers[k].status = "receiver_dropped")

\* C11: once a new scan has started while the worker of the scan before it was
\* running, the earlier scan's channel is empty and no longer read, its
\* worker's next send fails, nothing of it reaches the consumer, its outcome
\* stays "replaced" (no error is reported), and the worker eventually ends
\* with ReceiverDropped.
C11_ReplacedWorkerStops ==
    /\ [] ReplacedChannelInvalid
    /\ [][ReplacedWorkerOnlyStops]_vars
    /\ ReplacedWorkerEnds

\* a worker ended on ReceiverDropped while the scan that replaced its own goes on
C11_Witness ==
    \E k \in ScanIds :
        /\ Replaced(k)
        /\ workers[k].status = "receiver_dropped"
        /\ rx \in ScanIds \ {k}
        /\ workers[rx].status = "running"

----------------------------------------------------------------------------
(* Properties of the tree a scan delivers *)

Delivered == result_of # 0

\* C12: in the tree a completed scan delivered, every Dir, at every depth,
\* has the sum of its children's sizes as its size, and a Dir whose directory
\* has no entries has size 0 and no children.
C12_DirSizeIsSumOfChildren ==
    Delivered =>
        \A d \in LiveDirs(analysis_result) :
            /\ analysis_result.size[d] =
                   SumSeq(analysis_result.children[d], analysis_result.size)
            /\ Listing(d) = <<>> =>
                   (analysis_result.size[d] = 0 /\ analysis_result.children[d] = <<>>)

\* a delivered tree with a file of nonzero size two levels below the root and
\* a directory without entries
C12_Witness ==
    /\ Delivered
    /\ {5, 6, 7} \subseteq Live(analysis_result)
    /\ analysis_result.size[6] > 0
    /\ analysis_result.size[2] > 0
    /\ analysis_result.size[7] = 0

----------------------------------------------------------------------------
(* Properties of get_file_size *)

\* the allocation a metadata reports, as a u64 of bytes
Allocation(m) == saturating_mul(m.blocks, BlockBytes)

ProbedFile == file_probe.asked /\ ~file_probe.entry.is_symlink

\* C13 as stated: the size of a file is its on-disk allocation, 0 when the
\* allocation is smaller than the logical length, and the logical length
\* whenever the allocation cannot be determined.
C13_AllocationElseLength ==
    ProbedFile =>
        LET e == file_probe.entry IN
        IF file_probe.unix /\ e.ok
        THEN file_probe.size =
                 IF Allocation(e.own) < e.own.len THEN 0 ELSE Allocation(e.own)
        ELSE file_probe.size = e.own.len

\* C13, amended: on a Unix target the size of a file whose metadata can be
\* read is its on-disk allocation, 0 when the allocation is smaller than the
\* logical length; on another target it is the logical length when the
\* metadata can be read; and it is 0 on every target when the metadata
\* cannot be read.
C13_AllocationElseLengthElseZero ==
    ProbedFile =>
        LET e == file_probe.entry IN
        IF ~e.ok
        THEN file_probe.size = 0
        ELSE IF file_probe.unix
        THEN file_probe.size =
                 IF Allocation(e.own) < e.own.len THEN 0 ELSE Allocation(e.own)
        ELSE file_probe.size = e.own.len

\* on a Unix target, a file of nonzero length and allocation whose metadata
\* cannot be read was sized 0
C13_Witness ==
    /\ ProbedFile
    /\ file_probe.unix
    /\ ~file_probe.entry.ok
    /\ file_probe.entry.own.len > 0
    /\ file_probe.entry.own.blocks > 0
    /\ file_probe.size = 0

----------------------------------------------------------------------------
(* Properties of the traversal *)

\* n is an entry that the settings s ignore, or lies below one
RECURSIVE UnderIgnored(_, _)
UnderIgnored(s, n) ==
    /\ n # Root
    /\ (is_path_ignored(s, AbsPath(n)) \/ UnderIgnored(s, Parent(n)))

\* n is an entry that cannot be read, or lies below one
RECURSIVE UnderFailed(_)
UnderFailed(n) == n \in io_error \/ (n # Root /\ UnderFailed(Parent(n)))

\* n is d or lies below d on disk
RECURSIVE IsUnder(_, _)
IsUnder(n, d) == n = d \/ (n # Root /\ IsUnder(Parent(n), d))

\* the files on disk under d that a scan under the settings s counts
FilesCounted(s, d) ==
    {f \in Files : IsUnder(f, d) /\ ~UnderIgnored(s, f) /\ ~UnderFailed(f)}

RECURSIVE SumOver(_, _)
SumOver(S, sz) ==
    IF S = {} THEN 0 ELSE LET x == CHOOSE y \in S : TRUE IN sz[x] + SumOver(S \ {x}, sz)

\* the entry the worker of scan k is at
AtEntry(k) == PreOrder[workers[k].pos]

\* C14: an entry that the settings in force at the start of the scan ignore is
\* skipped entirely: the worker keeps neither it nor anything below it, never
\* stands at an entry below it, and in the delivered tree neither it nor
\* anything below it is a node, and every Dir is sized by the files under it
\* that lie below no ignored (and no unreadable) entry.
C14_IgnoredEntriesSkipped ==
    /\ \A k \in ScanIds :
           workers[k].status = "running" =>
               /\ \A n \in workers[k].kept : ~UnderIgnored(scan_log[k].started_with, n)
               /\ (workers[k].pos <= Len(PreOrder) /\ AtEntry(k) # Root) =>
                      ~UnderIgnored(scan_log[k].started_with, Parent(AtEntry(k)))
    /\ Delivered =>
           /\ \A n \in Live(analysis_result) :
                  ~UnderIgnored(scan_log[result_of].started_with, n)
           /\ \A d \in LiveDirs(analysis_result) :
                  analysis_result.size[d] =
                      SumOver(FilesCounted(scan_log[result_of].started_with, d), fs_size)

\* a tree was delivered by a scan that ignored the directory C, which holds
\* files of nonzero size, beside a file of nonzero size
C14_Witness ==
    /\ Delivered
    /\ AbsPath(3) \in Range(scan_log[result_of].started_with.ignored_path)
    /\ fs_size[4] > 0
    /\ fs_size[6] > 0
    /\ analysis_result.size[Root] = fs_size[2]
    /\ fs_size[2] > 0

\* the entries that a scan under the settings s fails to read: unreadable, not
\* the root, and reached, being below no ignored and no unreadable entry
EntryErrors(s) ==
    {n \in io_error \ {Root} : ~UnderIgnored(s, n) /\ ~UnderFailed(Parent(n))}

\* the entries that a scan under the settings s has in its tree
Remaining(s) == {n \in Nodes : ~UnderIgnored(s, n) /\ ~UnderFailed(n)}

----------------------------------------------------------------------------
(* Properties of the panel *)

\* C16: with can_zoom_in false, zoom_in changes nothing whatever the index, be
\* it that of a Dir, that of a File or past the end: data_stack and every
\* child collection are as before, and the call does not panic.
C16_CappedZoomInNoOp ==
    (last.op = "zoom_in" /\ ~can_zoom_in) =>
        (analysis_result = last.pre /\ ~panicked)

\* zoom_in was called, with can_zoom_in false, on a Dir of nonzero size
C16_Witness ==
    /\ last.op = "zoom_in"
    /\ ~can_zoom_in
    /\ last.index < Len(TopChildren(last.pre))
    /\ IsDirEntry(AskedChild)
    /\ last.pre.size[AskedChild] > 0

\* C17 as stated: whenever a display pass can run, the children of the Dir on
\* top of the stack, which show hands to layout_items, are sorted descending
\* by size.
C17_LayoutInputSorted ==
    PanelLive =>
        IsSortedDesc(TopChildren(analysis_result), analysis_result.size)

\* C18: a display pass never panics, and whatever child the user
\* double-clicks, the index show passes to zoom_in, if it passes one, is
\* within the laid-out child collection of the Dir on top of the stack and is
\* that of a Dir with positive bounds.
C18_ShowZoomsInRange ==
    /\ last.op = "show" => ~panicked
    /\ PanelLive =>
           LET laid == laid_out(analysis_result)
               children == TopChildren(laid)
           IN  \A clicked \in {None} \cup Indices(analysis_result) :
                   LET index == clicked_data_index(children, laid, clicked)
                   IN  index # None =>
                           /\ index \in 0..(Len(children) - 1)
                           /\ IsDirEntry(children[index + 1])
                           /\ PositiveBounds(laid, children[index + 1])
                           /\ ~zoom_in(laid, can_zoom_in, index).panic

\* a display pass zoomed into the last child of the root, a Dir of nonzero
\* size, beside a File and a Dir of size 0 that no click selects
C18_Witness ==
    /\ last.op = "show"
    /\ ~panicked
    /\ can_zoom_in
    /\ Len(analysis_result.data_stack) = 2
    /\ analysis_result.size[Last(analysis_result.data_stack)] > 0
    /\ \E f \in Files : f \in Range(analysis_result.children[Root])
    /\ \E d \in Dirs :
           /\ d \in Range(analysis_result.children[Root])
           /\ analysis_result.size[d] = 0

----------------------------------------------------------------------------
(* Properties of get_file_size on a symbolic link *)

ProbedLink == file_probe.asked /\ file_probe.entry.is_symlink

\* C19 as stated, for the size of one entry: a symbolic link whose target can
\* be resolved is sized, on a Unix target, by the allocation of the link
\* itself, whatever it points to.
C19_LinkSizedByItself ==
    (ProbedLink /\ file_probe.unix /\ file_probe.entry.ok) =>
        file_probe.size = Allocation(file_probe.entry.own)

----------------------------------------------------------------------------
(* Properties of the Settings *)

DirtyAfterSetters ==
    /\ last.op \in {"set_theme", "reset_big_file_threshold"} => settings.dirty
    /\ last.op = "reset_big_file_threshold" =>
           settings.big_file_threshold = BIG_FILE_THRESHOLD

\* a path is added only by add_ignored_path, which leaves the settings dirty
\* and the path ignored; the settings file changes only in a save of dirty
\* settings, which writes them; and dirty, once true, stays true
DirtyStep ==
    /\ Len(settings'.ignored_path) > Len(settings.ignored_path) =>
           /\ settings'.dirty
           /\ is_path_ignored(settings', Last(settings'.ignored_path))
    /\ settings_file' # settings_file =>
           /\ settings.dirty
           /\ settings_file' = FileWith(Serialized(settings))
    /\ settings.dirty => settings'.dirty

\* C20: after set_theme, add_ignored_path and reset_big_file_threshold dirty
\* is true, and the path given to add_ignored_path is ignored; save writes
\* the settings file only when dirty is true; and no operation of Settings,
\* save included, sets dirty back to false.
C20_DirtyFlag == [] DirtyAfterSetters /\ [][DirtyStep]_vars

\* settings read from a file, then changed by set_theme, were saved, and are
\* still dirty after the save
C20_Witness ==
    /\ last.op = "save"
    /\ settings.dirty
    /\ settings.theme = "Dark"
    /\ settings.big_file_threshold = CustomThreshold
    /\ settings_file = FileWith(Serialized(settings))

====
